---- MODULE Spec2Model ----
(***************************************************************************)
(* Outbreak lifecycle and task dispatch of the alienbuster backend:        *)
(* recompute_outbreaks (backend/outbreaks.py), the task operations         *)
(* (backend/tasks.py) and the SQLite store they share (backend/db.py).     *)
(*                                                                         *)
(* Geometry.  Reports lie on one meridian, at whole kilometres: there the  *)
(* haversine distance of two points is the absolute difference of their    *)
(* positions.  A centroid is the arithmetic mean of member positions, a    *)
(* mean risk the arithmetic mean of member risks; both are kept exactly,   *)
(* as integers in units of 1/Scale (Scale is divisible by every possible   *)
(* member count).  Risks are in hundredths.  Floating-point rounding is    *)
(* not modelled.                                                           *)
(*                                                                         *)
(* Store.  Every handler opens its own sqlite3 connection (get_conn).      *)
(* Python's sqlite3 runs a SELECT outside any transaction, opens a         *)
(* transaction before the first INSERT/UPDATE of a connection, and that    *)
(* statement takes SQLite's write lock, held until commit or until the     *)
(* connection is closed (which rolls back).  Writes of an open transaction *)
(* are seen by their own connection only.                                  *)
(***************************************************************************)
EXTENDS Integers, Sequences, FiniteSets, TLC

VARIABLES
    reports,     \* table reports, in scan (rowid) order
    outbreaks,   \* table outbreaks as committed; a row's id is its index
    tasks,       \* table tasks as committed; a row's id is its index
    lock,        \* the worker holding SQLite's write lock, or NoProc
    tx,          \* the lock holder's uncommitted view of outbreaks and tasks
    loc,         \* per worker: the locals of the handler it runs and the statement it is at
    hashOrder,   \* iteration order of a Python set of species (hash seed)
    last         \* the last handler served alone and what it returned, until the data change

vars == <<reports, outbreaks, tasks, lock, tx, loc, hashOrder, last>>

----------------------------------------------------------------------------
(* Bounds of the model *)

MaxNewReports == 2
MaxOutbreaks == 2
MaxTasks == 2
MaxStatements == 3

(* Program constants *)

MinSamples == 3
EpsKm == 2
MergeKm == 5
RiskFloor == 70
TaskRiskMin == 75
CriticalRiskMin == 90

Procs == {"w1", "w2"}
NoProc == "none"
ActiveStatuses == {"watch", "investigating", "confirmed"}
OutbreakStatuses == ActiveStatuses \cup {"resolved"}

----------------------------------------------------------------------------
(* Arithmetic helpers *)

Abs(x) == IF x < 0 THEN -x ELSE x

RECURSIVE Gcd(_, _)
Gcd(a, b) == IF b = 0 THEN a ELSE Gcd(b, a % b)

RECURSIVE LcmUpTo(_)
LcmUpTo(n) == IF n <= 1 THEN 1 ELSE LET l == LcmUpTo(n - 1) IN (l * n) \div Gcd(l, n)

\* the unit of means: 1/Scale, divisible by every count of up to 9 seeded reports
\* and the reports added to them
Scale == LcmUpTo(9 + MaxNewReports)

RECURSIVE SumSeq(_)
SumSeq(s) == IF s = <<>> THEN 0 ELSE Head(s) + SumSeq(Tail(s))

RECURSIVE MaxSeq(_)
MaxSeq(s) == IF s = <<>> THEN 0
             ELSE LET m == MaxSeq(Tail(s)) IN IF Head(s) > m THEN Head(s) ELSE m

\* np.mean of a list of numbers, in units of 1/Scale
Mean(s) == (SumSeq(s) * Scale) \div Len(s)

----------------------------------------------------------------------------
(* float(np.mean(...)) of risks, in IEEE double precision.  A risk of r
   hundredths (50 <= r <= 100) is held as the double nearest r/100.  A double
   near a decimal is the pair <<n, e>>: n hundredths plus e/25 units in the
   last place of [0.5, 1), which is 2^-53; the double itself is a whole number
   of these units, 25 * A = n * 2^51 + e. *)

\* 2^51 modulo m, as 2^30 * 2^21
TwoTo51Mod(m) == ((1073741824 % m) * (2097152 % m)) % m

\* what the double nearest r/100 lies above r/100, in 25ths of 2^-53
HundredthErr(r) == LET m == (2 * r) % 25 IN IF m <= 12 THEN m ELSE m - 25

Double(r) == <<r, HundredthErr(r)>>

\* the gap between neighbouring doubles at the value, in units of 2^-53
Spacing(n, e) ==
    LET Below(k) == n < 100 * k \/ (n = 100 * k /\ e < 0)
    IN IF Below(1) THEN 1 ELSE IF Below(2) THEN 2 ELSE IF Below(4) THEN 4
       ELSE IF Below(8) THEN 8 ELSE 16

\* A modulo m
UlpsMod(n, e, m) == ((n * TwoTo51Mod(25 * m) + e) % (25 * m)) \div 25

\* round to nearest, ties to even, onto the multiples of s; the result is e
RoundToEven(n, e, s) ==
    LET t == UlpsMod(n, e, s)
        down == e - 25 * t
        up == e + 25 * (s - t)
    IN IF t = 0 THEN e
       ELSE IF 2 * t < s THEN down
       ELSE IF 2 * t > s THEN up
       ELSE IF UlpsMod(n, e, 2 * s) < s THEN down ELSE up

FloatAdd(a, b) ==
    LET n == a[1] + b[1]
        e == a[2] + b[2]
    IN <<n, RoundToEven(n, e, Spacing(n, e))>>

\* res += a[i], left to right
RECURSIVE FloatSumFrom(_, _)
FloatSumFrom(acc, xs) == IF xs = <<>> THEN acc ELSE FloatSumFrom(FloatAdd(acc, Head(xs)), Tail(xs))

\* numpy's pairwise sum of fewer than 16 doubles: a plain loop under 8, else
\* eight accumulators added in pairs and the rest added one by one
PairwiseSum(xs) ==
    IF Len(xs) < 8 THEN FloatSumFrom(Head(xs), Tail(xs))
    ELSE FloatSumFrom(FloatAdd(FloatAdd(FloatAdd(xs[1], xs[2]), FloatAdd(xs[3], xs[4])),
                               FloatAdd(FloatAdd(xs[5], xs[6]), FloatAdd(xs[7], xs[8]))),
                      SubSeq(xs, 9, Len(xs)))

\* np.add.reduce: the identity 0.0 plus the pairwise sum of the elements
FloatSum(xs) == PairwiseSum(xs)

\* what float(np.mean(risks)) lies above the exact mean of the hundredths, in
\* units of 2^-53 / (25 * Scale): the sum divided by the count and rounded
MeanErr(risks) ==
    LET total == FloatSum([i \in 1..Len(risks) |-> Double(risks[i])])
        n == total[1]
        e == total[2]
        c == Len(risks)
        r == UlpsMod(n, e, c)
        down == e - 25 * r
        up == e + 25 * (c - r)
        q == IF r = 0 THEN e
             ELSE IF 2 * r < c THEN down
             ELSE IF 2 * r > c THEN up
             ELSE IF UlpsMod(n, e, 2 * c) < c THEN down ELSE up
    IN q * (Scale \div c)

\* the stored double is at least the double nearest h/100
AtLeast(mean, err, h) == mean > h * Scale \/ (mean = h * Scale /\ err >= HundredthErr(h) * Scale)

----------------------------------------------------------------------------

\* the indices of a set, ascending
RECURSIVE SortedSeq(_)
SortedSeq(S) == IF S = {} THEN <<>>
                ELSE LET m == CHOOSE x \in S : \A y \in S : x <= y
                     IN <<m>> \o SortedSeq(S \ {m})

Map(s, F(_)) == [i \in 1..Len(s) |-> F(s[i])]

\* _haversine_km on the meridian: both arguments in the same unit
HaversineKm(a, b) == Abs(a - b)

----------------------------------------------------------------------------
(* Clustering: sklearn's DBSCAN(eps = 2 km, min_samples = 3) over the rows *)

Neighbours(rows, i) == {j \in 1..Len(rows) : HaversineKm(rows[i].pos, rows[j].pos) <= EpsKm}

\* a clustering that takes two neighbours for a core point
CorePointsOfTwo(rows) == {i \in 1..Len(rows) : Cardinality(Neighbours(rows, i)) >= MinSamples - 1}

CorePoints(rows) == {i \in 1..Len(rows) : Cardinality(Neighbours(rows, i)) >= MinSamples}

\* the points a depth-first expansion from the points of S labels
RECURSIVE Expand(_, _)
Expand(rows, S) ==
    LET S2 == S \cup UNION {Neighbours(rows, c) : c \in S \cap CorePoints(rows)}
    IN IF S2 = S THEN S ELSE Expand(rows, S2)

\* the clusters in label order, each as a set of row indices: the next seed is
\* the first unlabelled core point; a border point stays with the first cluster
\* that reaches it
RECURSIVE DbscanFrom(_, _)
DbscanFrom(rows, labelled) ==
    LET seeds == CorePoints(rows) \ labelled
    IN IF seeds = {} THEN <<>>
       ELSE LET seed == CHOOSE i \in seeds : \A j \in seeds : i <= j
                members == Expand(rows, {seed}) \ labelled
            IN <<members>> \o DbscanFrom(rows, labelled \cup members)

Dbscan(rows) == DbscanFrom(rows, {})

\* cluster_reports of every label, in label order (members in row order)
ClusterReports(rows) ==
    LET cs == Dbscan(rows)
    IN [k \in 1..Len(cs) |-> LET idx == SortedSeq(cs[k]) IN [i \in 1..Len(idx) |-> rows[idx[i]]]]

----------------------------------------------------------------------------
(* Per-cluster aggregates *)

CountOf(sp, members) == Cardinality({i \in 1..Len(members) : members[i].species = sp})

\* the species that max(set(species_list), key = species_list.count) may return
ModalSpecies(members) ==
    LET present == {members[i].species : i \in 1..Len(members)}
    IN {sp \in present : \A other \in present : CountOf(sp, members) >= CountOf(other, members)}

\* max() keeps the first maximal element in the set's iteration order
MainSpecies(members, order) ==
    LET modal == ModalSpecies(members)
        first == CHOOSE i \in 1..Len(order) :
                    /\ order[i] \in modal
                    /\ \A j \in 1..Len(order) : order[j] \in modal => i <= j
    IN order[first]

PosOf(r) == r.pos
RiskOf(r) == r.risk
AnomalyOf(r) == IF r.anomaly THEN 1 ELSE 0

Centroid(members) == Mean(Map(members, PosOf))

RadiusKm(members) ==
    LET c == Centroid(members)
    IN MaxSeq([i \in 1..Len(members) |-> HaversineKm(c, members[i].pos * Scale)])

ClusterSummary(members, order) ==
    [species      |-> MainSpecies(members, order),
     centroid     |-> Centroid(members),
     radius_km    |-> RadiusKm(members),
     num_reports  |-> Len(members),
     mean_risk    |-> Mean(Map(members, RiskOf)),
     mean_risk_err |-> MeanErr(Map(members, RiskOf)),
     anomaly_rate |-> Mean(Map(members, AnomalyOf))]

----------------------------------------------------------------------------
(* Rows and inputs *)

Rep(pos, sp, risk, an) ==
    [pos |-> pos, species |-> sp, risk |-> risk, anomaly |-> an, inv |-> TRUE, recent |-> TRUE]

\* three kudzu reports 1 km apart
LineReports == <<Rep(0, "kudzu", 76, TRUE), Rep(1, "kudzu", 76, FALSE), Rep(2, "kudzu", 76, FALSE)>>

\* two qualifying reports next to three that the SELECT leaves out
PairReports ==
    <<Rep(0, "kudzu", 70, FALSE), Rep(1, "kudzu", 90, TRUE),
      Rep(1, "kudzu", 69, FALSE),
      [Rep(1, "kudzu", 90, FALSE) EXCEPT !.inv = FALSE],
      [Rep(1, "kudzu", 90, FALSE) EXCEPT !.recent = FALSE]>>

\* three sites 4 km apart, three reports each
ChainReports ==
    <<Rep(0, "kudzu", 90, FALSE), Rep(0, "kudzu", 90, FALSE), Rep(0, "kudzu", 90, FALSE),
      Rep(4, "kudzu", 90, FALSE), Rep(4, "kudzu", 90, FALSE), Rep(4, "kudzu", 90, FALSE),
      Rep(8, "kudzu", 90, FALSE), Rep(8, "kudzu", 90, FALSE), Rep(8, "kudzu", 90, FALSE)>>

\* one cluster in which two species tie
MixedReports ==
    <<Rep(0, "kudzu", 100, TRUE), Rep(0, "knotweed", 80, FALSE),
      Rep(1, "knotweed", 80, FALSE), Rep(1, "kudzu", 100, TRUE)>>

InitialReports == {<<>>, LineReports, PairReports, ChainReports, MixedReports}

\* the reports a POST /report may add
NewReports == {Rep(2, "kudzu", 71, FALSE), Rep(2, "kudzu", 100, TRUE)}

NoCluster ==
    [species |-> "", centroid |-> 0, radius_km |-> 0, num_reports |-> 0, mean_risk |-> 0,
     mean_risk_err |-> 0,
     anomaly_rate |-> 0]

NoStore == [outbreaks |-> <<>>, tasks |-> <<>>]

NoLoc ==
    [pc |-> "idle", op |-> "none", clusters |-> <<>>, cur |-> NoCluster, existing |-> <<>>,
     outbreak_id |-> 0, candidates |-> <<>>, created |-> 0, updated |-> 0, pre |-> NoStore]

NoLast == [op |-> "none", failed |-> FALSE, created |-> 0, updated |-> 0, rerun |-> FALSE]

NoNotes == [kind |-> "none", species |-> "", risk |-> 0]
OperatorNotes == [kind |-> "operator", species |-> "", risk |-> 0]

Store == [outbreaks |-> outbreaks, tasks |-> tasks]

\* what the connection of worker p reads
View(p) == IF lock = p THEN tx ELSE Store

\* an INSERT or UPDATE of p's connection gets the write lock (or waits for it)
CanWrite(p) == lock \in {NoProc, p}

\* no handler is in flight
AllIdle == \A q \in Procs : loc[q].pc = "idle"

SelectIds(rows, Test(_)) == SortedSeq({i \in 1..Len(rows) : Test(rows[i])})

----------------------------------------------------------------------------
(* The state after construction *)

TypeInit ==
    /\ outbreaks = <<>>
    /\ tasks = <<>>
    /\ lock = NoProc
    /\ tx = NoStore
    /\ loc = [p \in Procs |-> NoLoc]
    /\ last = NoLast

Init ==
    /\ TypeInit
    /\ reports \in InitialReports
    /\ hashOrder \in {<<"kudzu", "knotweed">>, <<"knotweed", "kudzu">>}

----------------------------------------------------------------------------
(* recompute_outbreaks, statement by statement: each function takes the
   handler's locals l and the tables v its connection reads *)

\* a SELECT without its fused_risk >= 0.70
QualifyingAnyRisk(rows) ==
    LET Keep(r) == r.recent /\ r.inv
    IN SelectSeq(rows, Keep)

\* the SELECT of high-risk reports of the last 60 days
Qualifying(rows) ==
    LET Keep(r) == r.recent /\ r.inv /\ r.risk >= RiskFloor
    IN SelectSeq(rows, Keep)

\* a SELECT of merge candidates that leaves the status out
IsMergeCandidateAnyStatus(o, species) == o.species = species

\* WHERE species = ? AND status IN ('watch', 'investigating', 'confirmed')
IsMergeCandidate(o, species) == o.species = species /\ o.status \in ActiveStatuses

\* if dist < 5.0
IsNear(dist) == dist < MergeKm * Scale

\* the SELECT, the clustering, and the aggregates of every cluster (which the
\* loop computes cluster by cluster from the rows read here)
RcStart(rows, order) ==
    LET cr == ClusterReports(rows)
        clusters == [k \in 1..Len(cr) |-> ClusterSummary(cr[k], order)]
    IN [NoLoc EXCEPT !.op = "recompute",
                     !.clusters = clusters,
                     !.pc = IF rows = <<>> THEN "ret"
                            ELSE IF clusters = <<>> THEN "rc_commit" ELSE "rc_select"]

\* the next cluster and the SELECT of its merge candidates, by ascending id
RcSelectExistingFn(l, v) ==
    LET cur == Head(l.clusters)
        Match(o) == IsMergeCandidate(o, cur.species)
    IN [l EXCEPT !.cur = cur,
                 !.existing = SelectIds(v.outbreaks, Match),
                 !.outbreak_id = 0,
                 !.pc = "rc_scan"]

\* one turn of the loop over the candidates: read its centroid, stop when near
RcScanFn(l, v) ==
    IF l.existing = <<>>
    THEN [l EXCEPT !.pc = "rc_write"]
    ELSE LET ex == Head(l.existing)
             ex_row == v.outbreaks[ex]
             dist == HaversineKm(l.cur.centroid, ex_row.centroid)
         IN IF IsNear(dist)
            THEN [l EXCEPT !.outbreak_id = ex, !.existing = <<>>, !.pc = "rc_write"]
            ELSE [l EXCEPT !.existing = Tail(l.existing)]

\* an update that absorbs every other outbreak into the one it merges into
UpdateOutbreakAbsorbs(rows, id, cur) ==
    <<[rows[id] EXCEPT !.centroid = cur.centroid,
                       !.radius_km = cur.radius_km,
                       !.num_reports = cur.num_reports,
                       !.mean_risk = cur.mean_risk,
                       !.mean_risk_err = cur.mean_risk_err,
                       !.anomaly_rate = cur.anomaly_rate]>>

\* an update that also puts the outbreak back under investigation
UpdateOutbreakReopens(rows, id, cur) ==
    [rows EXCEPT ![id] = [@ EXCEPT !.centroid = cur.centroid,
                                   !.radius_km = cur.radius_km,
                                   !.num_reports = cur.num_reports,
                                   !.mean_risk = cur.mean_risk,
                                   !.mean_risk_err = cur.mean_risk_err,
                                   !.anomaly_rate = cur.anomaly_rate,
                                   !.status = "investigating"]]

\* an UPDATE without its WHERE id = ?
UpdateOutbreakEveryRow(rows, id, cur) ==
    [i \in 1..Len(rows) |-> [rows[i] EXCEPT !.centroid = cur.centroid,
                                            !.radius_km = cur.radius_km,
                                            !.num_reports = cur.num_reports,
                                            !.mean_risk = cur.mean_risk,
                                            !.mean_risk_err = cur.mean_risk_err,
                                            !.anomaly_rate = cur.anomaly_rate]]

UpdateOutbreak(rows, id, cur) ==
    [rows EXCEPT ![id] = [@ EXCEPT !.centroid = cur.centroid,
                                   !.radius_km = cur.radius_km,
                                   !.num_reports = cur.num_reports,
                                   !.mean_risk = cur.mean_risk,
                                   !.mean_risk_err = cur.mean_risk_err,
                                   !.anomaly_rate = cur.anomaly_rate]]

InsertOutbreak(rows, cur) ==
    Append(rows, [species      |-> cur.species,
                  centroid     |-> cur.centroid,
                  radius_km    |-> cur.radius_km,
                  num_reports  |-> cur.num_reports,
                  mean_risk    |-> cur.mean_risk,
                  mean_risk_err |-> cur.mean_risk_err,
                  anomaly_rate |-> cur.anomaly_rate,
                  status       |-> "investigating"])

\* the UPDATE or the INSERT of the cluster
RcWriteFn(l, v) ==
    LET rest == Tail(l.clusters)
    IN [loc  |-> [l EXCEPT !.clusters = rest,
                           !.created = IF l.outbreak_id = 0 THEN @ + 1 ELSE @,
                           !.updated = IF l.outbreak_id # 0 THEN @ + 1 ELSE @,
                           !.pc = IF rest = <<>> THEN "rc_commit" ELSE "rc_select"],
        view |-> [v EXCEPT !.outbreaks = IF l.outbreak_id # 0
                                         THEN UpdateOutbreak(@, l.outbreak_id, l.cur)
                                         ELSE InsertOutbreak(@, l.cur)]]

----------------------------------------------------------------------------
(* auto_create_tasks_from_outbreaks (reconcile), statement by statement *)

\* WHERE status IN ('investigating', 'confirmed') AND mean_risk >= 0.75
IsCandidate(o) == o.status \in {"investigating", "confirmed"} /\ AtLeast(o.mean_risk, o.mean_risk_err, TaskRiskMin)

\* a check that takes only open tasks for live
OpenTaskExists(rows, id) == \E i \in 1..Len(rows) : rows[i].outbreak_id = id /\ rows[i].status = "open"

\* a check that takes a resolved task for live too
TaskExistsAnyStatus(rows, id) == \E i \in 1..Len(rows) : rows[i].outbreak_id = id

\* SELECT 1 FROM tasks WHERE outbreak_id = ? AND status != 'resolved'
TaskExists(rows, id) == \E i \in 1..Len(rows) : rows[i].outbreak_id = id /\ rows[i].status # "resolved"

\* a priority that is critical only above 0.9
AutoPriorityAbove(mean_risk, err) == IF mean_risk > CriticalRiskMin * Scale THEN "critical" ELSE "high"

\* 'critical' if ob["mean_risk"] >= 0.9 else 'high'
AutoPriority(mean_risk, err) == IF AtLeast(mean_risk, err, CriticalRiskMin) THEN "critical" ELSE "high"

\* f"{mean_risk:.2f}": the stored double to the nearest hundredth, a double that
\* lies exactly half way going to the even hundredth
FormatRisk(mean_risk, err) ==
    LET q == mean_risk \div Scale
        r == mean_risk % Scale
    IN IF 2 * r < Scale THEN q
       ELSE IF 2 * r > Scale THEN q + 1
       ELSE IF err < 0 THEN q
       ELSE IF err > 0 THEN q + 1
       ELSE IF q % 2 = 0 THEN q ELSE q + 1

\* the SELECT of the candidate outbreaks, kept as read
TkStart(v) ==
    LET ids == SelectIds(v.outbreaks, IsCandidate)
        candidates == [k \in 1..Len(ids) |->
                          [id |-> ids[k], species |-> v.outbreaks[ids[k]].species,
                           mean_risk |-> v.outbreaks[ids[k]].mean_risk,
                           mean_risk_err |-> v.outbreaks[ids[k]].mean_risk_err]]
    IN [NoLoc EXCEPT !.op = "reconcile",
                     !.candidates = candidates,
                     !.pc = IF candidates = <<>> THEN "tk_commit" ELSE "tk_check"]

\* a pass that inserts without looking
TkCheckSkipped(l, v) == [l EXCEPT !.pc = "tk_insert"]

\* the SELECT that looks for a live task of the next candidate
TkCheckFn(l, v) ==
    LET rest == Tail(l.candidates)
    IN IF TaskExists(v.tasks, Head(l.candidates).id)
       THEN [l EXCEPT !.candidates = rest,
                      !.pc = IF rest = <<>> THEN "tk_commit" ELSE "tk_check"]
       ELSE [l EXCEPT !.pc = "tk_insert"]

\* the INSERT of the task
TkInsertFn(l, v) ==
    LET ob == Head(l.candidates)
        rest == Tail(l.candidates)
        task == [outbreak_id |-> ob.id,
                 priority    |-> AutoPriority(ob.mean_risk, ob.mean_risk_err),
                 status      |-> "open",
                 notes       |-> [kind |-> "auto", species |-> ob.species,
                                 risk |-> FormatRisk(ob.mean_risk, ob.mean_risk_err)]]
    IN [loc  |-> [l EXCEPT !.candidates = rest,
                           !.created = @ + 1,
                           !.pc = IF rest = <<>> THEN "tk_commit" ELSE "tk_check"],
        view |-> [v EXCEPT !.tasks = Append(@, task)]]

----------------------------------------------------------------------------
(* The end of a connection's transaction *)

\* conn.commit(): the connection's view becomes the store
CommitFn(store, view) == view

\* a close that keeps what the connection wrote
CloseKeepsWrites(store, view) == view

\* conn.close() without commit: the open transaction is rolled back
RollbackFn(store, view) == store

----------------------------------------------------------------------------
(* Workers: handlers that run statement by statement, each on its own
   connection, interleaved with the statements of the other worker *)

Others == <<reports, hashOrder, last>>

RcBegin(p) ==
    /\ loc[p].pc = "idle"
    /\ loc' = [loc EXCEPT ![p] = [RcStart(Qualifying(reports), hashOrder) EXCEPT !.pre = Store]]
    /\ UNCHANGED <<outbreaks, tasks, lock, tx, Others>>

RcSelectExisting(p) ==
    /\ loc[p].pc = "rc_select"
    /\ loc' = [loc EXCEPT ![p] = RcSelectExistingFn(loc[p], View(p))]
    /\ UNCHANGED <<outbreaks, tasks, lock, tx, Others>>

RcScan(p) ==
    /\ loc[p].pc = "rc_scan"
    /\ loc' = [loc EXCEPT ![p] = RcScanFn(loc[p], View(p))]
    /\ UNCHANGED <<outbreaks, tasks, lock, tx, Others>>

\* the first write of a connection opens its transaction and takes the lock
RcWrite(p) ==
    /\ loc[p].pc = "rc_write"
    /\ CanWrite(p)
    /\ loc[p].outbreak_id = 0 => Len(View(p).outbreaks) < MaxOutbreaks
    /\ LET r == RcWriteFn(loc[p], View(p))
       IN /\ loc' = [loc EXCEPT ![p] = r.loc]
          /\ tx' = r.view
    /\ lock' = p
    /\ UNCHANGED <<outbreaks, tasks, Others>>

TkBegin(p) ==
    /\ loc[p].pc = "idle"
    /\ loc' = [loc EXCEPT ![p] = [TkStart(View(p)) EXCEPT !.pre = Store]]
    /\ UNCHANGED <<outbreaks, tasks, lock, tx, Others>>

TkCheck(p) ==
    /\ loc[p].pc = "tk_check"
    /\ loc' = [loc EXCEPT ![p] = TkCheckFn(loc[p], View(p))]
    /\ UNCHANGED <<outbreaks, tasks, lock, tx, Others>>

TkInsert(p) ==
    /\ loc[p].pc = "tk_insert"
    /\ CanWrite(p)
    /\ Len(View(p).tasks) < MaxTasks
    /\ LET r == TkInsertFn(loc[p], View(p))
       IN /\ loc' = [loc EXCEPT ![p] = r.loc]
          /\ tx' = r.view
    /\ lock' = p
    /\ UNCHANGED <<outbreaks, tasks, Others>>

\* conn.commit() of either pass; pre of a pass still in flight follows the
\* store as the other connection commits to it
Commit(p) ==
    /\ loc[p].pc \in {"rc_commit", "tk_commit"}
    /\ LET after == IF lock = p THEN CommitFn(Store, tx) ELSE Store
       IN /\ outbreaks' = after.outbreaks
          /\ tasks' = after.tasks
          /\ loc' = [q \in Procs |->
                        IF q = p THEN [loc[q] EXCEPT !.pc = "ret"]
                        ELSE IF loc[q].pc = "idle" THEN loc[q]
                        ELSE [loc[q] EXCEPT !.pre = after]]
    /\ lock' = IF lock = p THEN NoProc ELSE lock
    /\ tx' = IF lock = p THEN NoStore ELSE tx
    /\ UNCHANGED Others

MidPass == {"rc_select", "rc_scan", "rc_write", "rc_commit", "tk_check", "tk_insert", "tk_commit"}

\* a statement raises (store error, lock timeout): finally closes the connection
Fail(p) ==
    /\ loc[p].pc \in MidPass
    /\ LET after == IF lock = p THEN RollbackFn(Store, tx) ELSE Store
       IN /\ outbreaks' = after.outbreaks
          /\ tasks' = after.tasks
    /\ loc' = [loc EXCEPT ![p].pc = "failed"]
    /\ lock' = IF lock = p THEN NoProc ELSE lock
    /\ tx' = IF lock = p THEN NoStore ELSE tx
    /\ UNCHANGED Others

\* the handler returns (or its exception reaches the caller)
Return(p) ==
    /\ loc[p].pc \in {"ret", "failed"}
    /\ loc' = [loc EXCEPT ![p] = NoLoc]
    /\ UNCHANGED <<outbreaks, tasks, lock, tx, Others>>

----------------------------------------------------------------------------
(* Handlers served alone: the same statements, run to the end in one step *)

\* the statement at l.pc
Statement(m) ==
    LET l == m.loc
        v == m.view
    IN CASE l.pc = "rc_select" -> [loc |-> RcSelectExistingFn(l, v), view |-> v]
         [] l.pc = "rc_scan"   -> [loc |-> RcScanFn(l, v), view |-> v]
         [] l.pc = "rc_write"  -> RcWriteFn(l, v)
         [] l.pc = "tk_check"  -> [loc |-> TkCheckFn(l, v), view |-> v]
         [] l.pc = "tk_insert" -> TkInsertFn(l, v)
         [] OTHER              -> m

AtCommit(m) == m.loc.pc \in {"rc_commit", "tk_commit", "ret"}

\* the statements up to the commit, or the first n of them
RECURSIVE Run(_, _)
Run(m, n) == IF AtCommit(m) \/ n = 0 THEN m ELSE Run(Statement(m), n - 1)

\* no pass runs more statements than this
PassLength(start, v) == (Len(start.clusters) + Len(start.candidates)) * (Len(v.outbreaks) + 3)

\* the tables stay within the bounds of the model
Bounded(v) == Len(v.outbreaks) <= MaxOutbreaks /\ Len(v.tasks) <= MaxTasks

\* the handler runs to its commit and returns
Served(start, op) ==
    /\ LET m == Run([loc |-> start, view |-> Store], PassLength(start, Store))
           after == CommitFn(Store, m.view)
       IN /\ AtCommit(m)
          /\ Bounded(m.view)
          /\ outbreaks' = after.outbreaks
          /\ tasks' = after.tasks
          /\ last' = [op |-> op, failed |-> FALSE, created |-> m.loc.created,
                      updated |-> m.loc.updated, rerun |-> last.op = op /\ ~last.failed]
    /\ UNCHANGED <<reports, lock, tx, loc, hashOrder>>

\* a statement of the handler raises after n statements
Raised(start, op) ==
    /\ \E n \in 0..MaxStatements :
          LET m == Run([loc |-> start, view |-> Store], n)
              after == RollbackFn(Store, m.view)
          IN /\ ~AtCommit(m) \/ m.loc.pc # "ret"
             /\ Bounded(m.view)
             /\ outbreaks' = after.outbreaks
             /\ tasks' = after.tasks
             /\ last' = [NoLast EXCEPT !.op = op, !.failed = TRUE]
    /\ UNCHANGED <<reports, lock, tx, loc, hashOrder>>

Recompute ==
    /\ AllIdle
    /\ Served(RcStart(Qualifying(reports), hashOrder), "recompute")

RecomputeFails ==
    /\ AllIdle
    /\ Raised(RcStart(Qualifying(reports), hashOrder), "recompute")

Reconcile ==
    /\ AllIdle
    /\ Served(TkStart(Store), "reconcile")


----------------------------------------------------------------------------
(* create_task and update_task: one statement and its commit *)

ManualPriorities == {"normal"}

\* create_task: the INSERT, with the priority as given; nothing is checked
InsertTask(priorities) ==
    /\ Len(tasks) < MaxTasks
    /\ \E outbreak_id \in 1..Len(outbreaks), priority \in priorities :
          tasks' = Append(tasks, [outbreak_id |-> outbreak_id, priority |-> priority,
                                  status |-> "open", notes |-> NoNotes])
    /\ last' = NoLast
    /\ UNCHANGED <<reports, outbreaks, lock, tx, loc, hashOrder>>

\* POST /tasks for an outbreak, with a priority of the documented set
CreateTask ==
    /\ AllIdle
    /\ InsertTask(ManualPriorities)

\* the values of status and notes a request may carry; "" stands for None
UpdateStatuses == {"", "open", "in_progress", "resolved"}
UpdateNotes == {""}

\* update_task: sets what is given, nothing when nothing is given
SetTask(statuses, notess) ==
    /\ \E task_id \in 1..Len(tasks), status \in statuses, notes \in notess :
          /\ status # "" \/ notes # ""
          /\ tasks' = [tasks EXCEPT ![task_id] =
                          [@ EXCEPT !.status = IF status # "" THEN status ELSE @,
                                    !.notes = IF notes # "" THEN OperatorNotes ELSE @]]
    /\ last' = NoLast
    /\ UNCHANGED <<reports, outbreaks, lock, tx, loc, hashOrder>>

\* POST /tasks/{id}/update, with a status of the documented set
UpdateTask ==
    /\ AllIdle
    /\ SetTask(UpdateStatuses, UpdateNotes)

----------------------------------------------------------------------------
(* The environment *)

\* POST /report: insert_report commits one new row
AddReport ==
    /\ AllIdle
    /\ Cardinality({i \in 1..Len(reports) : reports[i] \in NewReports}) < MaxNewReports
    /\ \E r \in NewReports : reports' = Append(reports, r)
    /\ last' = NoLast
    /\ UNCHANGED <<outbreaks, tasks, lock, tx, loc, hashOrder>>

\* an operator moves an outbreak that is not resolved to another status
OperatorSetStatus ==
    /\ AllIdle
    /\ \E id \in 1..Len(outbreaks), s \in OutbreakStatuses :
          /\ outbreaks[id].status # "resolved"
          /\ outbreaks[id].status # s
          /\ outbreaks' = [outbreaks EXCEPT ![id].status = s]
    /\ last' = NoLast
    /\ UNCHANGED <<reports, tasks, lock, tx, loc, hashOrder>>

----------------------------------------------------------------------------
(* Specifications *)

\* recompute passes served one at a time, as reports arrive and operators act
NextRecompute ==
    \/ Recompute
    \/ RecomputeFails
    \/ AddReport
    \/ OperatorSetStatus

SpecRecompute == Init /\ [][NextRecompute]_vars

\* every operation, served one at a time and to its end
NextSerial ==
    \/ Recompute
    \/ Reconcile
    \/ CreateTask
    \/ UpdateTask
    \/ AddReport
    \/ OperatorSetStatus

InitDispatch == TypeInit /\ reports = LineReports /\ hashOrder = <<"kudzu", "knotweed">>

SpecSerial == InitDispatch /\ [][NextSerial]_vars

\* two workers, each running passes statement by statement
Next ==
    \/ \E p \in Procs : RcBegin(p)
    \/ \E p \in Procs : RcSelectExisting(p)
    \/ \E p \in Procs : RcScan(p)
    \/ \E p \in Procs : RcWrite(p)
    \/ \E p \in Procs : TkBegin(p)
    \/ \E p \in Procs : TkCheck(p)
    \/ \E p \in Procs : TkInsert(p)
    \/ \E p \in Procs : Commit(p)
    \/ \E p \in Procs : Fail(p)
    \/ \E p \in Procs : Return(p)

InitWorkers == TypeInit /\ reports \in {LineReports, ChainReports} /\ hashOrder = <<"kudzu", "knotweed">>

Spec == InitWorkers /\ [][Next]_vars

----------------------------------------------------------------------------
(* Properties of recompute_outbreaks served alone *)

\* a step in which a recompute pass ran to its commit
RecomputeDone == last'.op = "recompute" /\ ~last'.failed

IsActive(o) == o.status \in ActiveStatuses

\* row o carries the aggregates of cluster c
Carries(o, c) ==
    /\ o.species = c.species
    /\ o.centroid = c.centroid
    /\ o.radius_km = c.radius_km
    /\ o.num_reports = c.num_reports
    /\ o.mean_risk = c.mean_risk
    /\ o.anomaly_rate = c.anomaly_rate

\* the qualifying reports lie within 2 km of each other
MutuallyNear(rows) ==
    \A i, j \in 1..Len(rows) : HaversineKm(rows[i].pos, rows[j].pos) <= EpsKm

(* C7: recompute is idempotent on an unchanged report set: a pass that
   follows a completed pass with nothing in between returns created = 0 and
   updated = 0, or leaves every outbreak as the first pass left it. *)
C7_RecomputeIdempotent ==
    [][(last.op = "recompute" /\ ~last.failed /\ RecomputeDone)
       => \/ last'.created = 0 /\ last'.updated = 0
          \/ outbreaks' = outbreaks]_vars

(* C9: every outbreak has num_reports >= 3; after a pass over exactly two
   mutually near qualifying reports there is no outbreak; after a pass over
   exactly three qualifying reports within 2 km of each other there is exactly
   one active outbreak, written by this pass, with num_reports = 3. *)
C9_MinimumClusterSize ==
    LET rows == Qualifying(reports)
        done == last.op = "recompute" /\ ~last.failed
    IN /\ \A i \in 1..Len(outbreaks) : outbreaks[i].num_reports >= MinSamples
       /\ (done /\ Len(rows) = 2 /\ MutuallyNear(rows))
          => last.created = 0 /\ last.updated = 0 /\ outbreaks = <<>>
       /\ (done /\ Len(rows) = 3 /\ MutuallyNear(rows))
          => /\ last.created + last.updated = 1
             /\ Cardinality({i \in 1..Len(outbreaks) : IsActive(outbreaks[i])}) = 1
             /\ \A i \in 1..Len(outbreaks) : IsActive(outbreaks[i]) => outbreaks[i].num_reports = 3

\* a pass over three mutually near reports has inserted the outbreak
C9_Witness ==
    /\ last.op = "recompute" /\ ~last.failed /\ last.created = 1
    /\ Len(Qualifying(reports)) = 3 /\ MutuallyNear(Qualifying(reports))
    /\ Len(reports) > 3
    /\ \E i \in 1..Len(outbreaks) : outbreaks[i].num_reports = 3

(* C10: the merge decision. A pass leaves every row it does not merge into as
   it was, changes only active rows of a cluster's species, and appends only
   'investigating' rows; for a pass over one cluster: if an active outbreak of
   the cluster's species lies within 5 km of its centroid (dist < 5.0), one
   such outbreak takes the cluster's aggregates and nothing is inserted,
   otherwise exactly one row with the cluster's aggregates is appended. *)
C10_MergeDecision ==
    [][RecomputeDone =>
        LET cs == RcStart(Qualifying(reports), hashOrder).clusters
            n == Len(outbreaks)
            Near(c) == {i \in 1..n : /\ IsActive(outbreaks[i])
                                     /\ outbreaks[i].species = c.species
                                     /\ HaversineKm(outbreaks[i].centroid, c.centroid) < MergeKm * Scale}
        IN /\ Len(outbreaks') = n + last'.created
           /\ last'.created + last'.updated = Len(cs)
           /\ \A i \in 1..n :
                 outbreaks'[i] # outbreaks[i]
                 => /\ IsActive(outbreaks[i])
                    /\ outbreaks'[i].status = outbreaks[i].status
                    /\ \E k \in 1..Len(cs) : outbreaks[i].species = cs[k].species /\ Carries(outbreaks'[i], cs[k])
           /\ \A i \in (n + 1)..Len(outbreaks') :
                 /\ outbreaks'[i].status = "investigating"
                 /\ \E k \in 1..Len(cs) : Carries(outbreaks'[i], cs[k])
           /\ Len(cs) = 1
              => IF Near(cs[1]) # {}
                 THEN /\ last'.created = 0 /\ last'.updated = 1
                      /\ \E i \in Near(cs[1]) :
                            /\ Carries(outbreaks'[i], cs[1])
                            /\ \A j \in 1..n : j # i => outbreaks'[j] = outbreaks[j]
                 ELSE /\ last'.created = 1 /\ last'.updated = 0
                      /\ Carries(outbreaks'[n + 1], cs[1])
                      /\ \A j \in 1..n : outbreaks'[j] = outbreaks[j]]_vars

\* a pass has merged into the second outbreak, past a resolved one at the same place
C10_Witness ==
    /\ last.op = "recompute" /\ ~last.failed /\ last.updated = 1 /\ last.created = 0
    /\ Len(outbreaks) = 2
    /\ outbreaks[1].status = "resolved"
    /\ IsActive(outbreaks[2])
    /\ outbreaks[1].species = outbreaks[2].species
    /\ HaversineKm(outbreaks[1].centroid, outbreaks[2].centroid) < MergeKm * Scale
    /\ outbreaks[1].mean_risk # outbreaks[2].mean_risk

----------------------------------------------------------------------------
(* Properties of passes that run side by side *)

LiveTasks(id) == {i \in 1..Len(tasks) : tasks[i].outbreak_id = id /\ tasks[i].status # "resolved"}

(* C1: concurrent reconcile calls never leave an outbreak with two
   non-resolved tasks that reconcile created. *)
C1_NoDoubleDispatch ==
    \A id \in 1..Len(outbreaks) :
        Cardinality({i \in LiveTasks(id) : tasks[i].notes.kind = "auto"}) <= 1

(* C2: recompute passes are serialized, so that no two passes insert an
   outbreak for the same cluster: no two active outbreaks carry the same
   species and the same centroid. *)
C2_NoDuplicateOutbreaks ==
    \A i, j \in 1..Len(outbreaks) :
        (i < j /\ IsActive(outbreaks[i]) /\ IsActive(outbreaks[j]))
        => ~(/\ outbreaks[i].species = outbreaks[j].species
             /\ outbreaks[i].centroid = outbreaks[j].centroid)

(* C8: a pass that fails before its commit leaves nothing of what it wrote:
   the store is the store the pass started from, as the commits of other
   connections have changed it since. *)
C8_FailedPassLeavesStore ==
    \A p \in Procs : loc[p].pc = "failed" => Store = loc[p].pre

\* a pass has failed after it had written rows
C8_Witness ==
    \E p \in Procs :
        /\ loc[p].pc = "failed"
        /\ loc[p].created + loc[p].updated >= 1
        /\ loc[p].clusters # <<>> \/ loc[p].candidates # <<>>

----------------------------------------------------------------------------
(* Properties of the task operations served one at a time *)

\* a step in which a reconcile pass ran to its commit
ReconcileDone == last'.op = "reconcile" /\ ~last'.failed

(* C3: whatever sequence of reconcile, create_task and update_task ran, each
   outbreak has at most one task whose status is not 'resolved'. *)
C3_AtMostOneLiveTask ==
    \A id \in 1..Len(outbreaks) : Cardinality(LiveTasks(id)) <= 1

(* C4: a reconcile pass creates no task for an outbreak that has a
   non-resolved task when the pass starts, whatever recompute did to the
   outbreak's mean risk since that task was created, and no two tasks for one
   outbreak; the tasks that were there stay as they were. *)
C4_LiveTaskBlocksCreation ==
    [][ReconcileDone =>
        /\ Len(tasks') >= Len(tasks)
        /\ \A i \in 1..Len(tasks) : tasks'[i] = tasks[i]
        /\ \A i \in (Len(tasks) + 1)..Len(tasks') :
              /\ LiveTasks(tasks'[i].outbreak_id) = {}
              /\ \A j \in (Len(tasks) + 1)..Len(tasks') :
                    tasks'[j].outbreak_id = tasks'[i].outbreak_id => i = j]_vars

\* a pass has created nothing for a qualifying outbreak whose live task dates
\* from another mean risk, after reports moved the mean below 0.75 and back
C4_Witness ==
    /\ last.op = "reconcile" /\ ~last.failed /\ last.created = 0
    /\ \E id \in 1..Len(outbreaks) :
          /\ IsCandidate(outbreaks[id])
          /\ \E i \in LiveTasks(id) :
                /\ tasks[i].notes.kind = "auto"
                /\ tasks[i].notes.risk # FormatRisk(outbreaks[id].mean_risk, outbreaks[id].mean_risk_err)
    /\ \E k \in 1..Len(reports) :
          Mean(Map(SubSeq(reports, 1, k), RiskOf)) < TaskRiskMin * Scale

(* C5: reconcile is idempotent: a pass that follows a completed pass with
   nothing in between creates no task and returns 0. *)
C5_ReconcileIdempotent ==
    [][(last.op = "reconcile" /\ ~last.failed /\ ReconcileDone)
       => last'.created = 0 /\ tasks' = tasks]_vars

\* a second pass in a row has returned 0 with a qualifying outbreak in the store
C5_Witness ==
    /\ last.op = "reconcile" /\ ~last.failed /\ last.rerun /\ last.created = 0
    /\ \E id \in 1..Len(outbreaks) : IsCandidate(outbreaks[id]) /\ LiveTasks(id) # {}

(* C6: when a reconcile pass completes, every outbreak with status
   investigating or confirmed and mean risk >= 0.75 has exactly one
   non-resolved task, and the pass returns the number of tasks it inserted. *)
C6_ExactlyOneLiveTask ==
    [][ReconcileDone =>
        /\ last'.created = Len(tasks') - Len(tasks)
        /\ \A id \in 1..Len(outbreaks') :
              IsCandidate(outbreaks'[id])
              => Cardinality({i \in 1..Len(tasks') : /\ tasks'[i].outbreak_id = id
                                                     /\ tasks'[i].status # "resolved"}) = 1]_vars

----------------------------------------------------------------------------
(* Frame properties of the core operations *)

(* C11: no core operation (recompute, reconcile, create_task, update_task)
   changes the status of an outbreak: every outbreak keeps its id and its
   species in every step, and its status in every step but a step of the
   operator, so that an outbreak becomes 'resolved' only by the operator. The
   operator's step leaves reports and tasks alone and returns nothing, which
   no core operation does while it changes the outbreaks. *)
C11_StatusFrame ==
    [][/\ Len(outbreaks') >= Len(outbreaks)
       /\ \A id \in 1..Len(outbreaks) :
             /\ outbreaks'[id].species = outbreaks[id].species
             /\ outbreaks'[id].status # outbreaks[id].status
                => /\ OperatorSetStatus
                   /\ last' = NoLast /\ tasks' = tasks /\ reports' = reports]_vars

\* a pass has rewritten the aggregates of an outbreak that an operator had
\* confirmed, and it is still confirmed
C11_Witness ==
    /\ last.op = "recompute" /\ ~last.failed /\ last.updated = 1
    /\ \E id \in 1..Len(outbreaks) :
          /\ outbreaks[id].status = "confirmed"
          /\ outbreaks[id].num_reports = Len(reports)
          /\ Len(reports) > Len(LineReports)

(* C12: recompute never merges or deletes existing outbreak records: across
   every step the outbreaks that existed still exist under their ids, and a
   completed pass leaves no two of them that it has written with the
   aggregates of one and the same cluster. *)
C12_NoMergeNoDelete ==
    [][/\ Len(outbreaks') >= Len(outbreaks)
       /\ RecomputeDone
          => \A i, j \in 1..Len(outbreaks) :
                (/\ i < j
                 /\ outbreaks'[i] # outbreaks[i]
                 /\ outbreaks'[j] # outbreaks[j])
                => ~Carries(outbreaks'[i], [species      |-> outbreaks'[j].species,
                                            centroid     |-> outbreaks'[j].centroid,
                                            radius_km    |-> outbreaks'[j].radius_km,
                                            num_reports  |-> outbreaks'[j].num_reports,
                                            mean_risk    |-> outbreaks'[j].mean_risk,
                                            anomaly_rate |-> outbreaks'[j].anomaly_rate])]_vars

\* a pass over several clusters has updated two outbreaks of one species that
\* both existed before, and inserted none
C12_Witness ==
    /\ last.op = "recompute" /\ ~last.failed /\ last.created = 0 /\ last.updated >= 2
    /\ Len(outbreaks) = 2
    /\ IsActive(outbreaks[1]) /\ IsActive(outbreaks[2])
    /\ outbreaks[1].species = outbreaks[2].species
    /\ outbreaks[1].centroid # outbreaks[2].centroid

----------------------------------------------------------------------------
(* Risk fusion (fusion.py).  Signals are in hundredths, weights in
   hundredths, so a risk is an integer number of ten-thousandths and the
   weighted sum is exact. *)

W_ML == 40
W_DENSITY == 25
W_SAT == 25
W_REP == 5
W_QUAL == 3
W_SEAS == 2

\* 1.0 as a signal and as a risk
FullSignal == 100
FullRisk == 10000

Min2(a, b) == IF a < b THEN a ELSE b
Max2(a, b) == IF a > b THEN a ELSE b

\* str.lower() on the species names the model draws
Lower(species) ==
    CASE species = "Native" -> "native"
      [] species = "Unknown" -> "unknown"
      [] OTHER -> species

\* the six terms of the weighted sum
Components(ml_confidence, report_density, satellite_score, reputation, photo_quality, seasonality) ==
    [ml          |-> ml_confidence * W_ML,
     density     |-> report_density * W_DENSITY,
     satellite   |-> satellite_score * W_SAT,
     reputation  |-> reputation * W_REP,
     quality     |-> photo_quality * W_QUAL,
     seasonality |-> seasonality * W_SEAS]

\* a base score that leaves the three minor terms out
WeightedBaseOfSignals(c) == c.ml + c.density + c.satellite

\* risk = ml*W_ML + density*W_DENSITY + ... + seasonality*W_SEAS
WeightedBase(c) ==
    c.ml + c.density + c.satellite + c.reputation + c.quality + c.seasonality

\* a rule 1 that looks at the name only
IsNonInvasiveByName(is_invasive, species) ==
    Lower(species) \in {"unknown", "native", "unknown organism"}

\* a rule 1 that looks at the flag only
IsNonInvasiveByFlag(is_invasive, species) == ~is_invasive

\* if not is_invasive or species.lower() in ["unknown", "native", "unknown organism"]
IsNonInvasive(is_invasive, species) ==
    \/ ~is_invasive
    \/ Lower(species) \in {"unknown", "native", "unknown organism"}

\* elif ml_confidence < 0.60 and satellite_score < 0.4 and report_density < 0.3
IsUncorroborated(ml_confidence, satellite_score, report_density) ==
    ml_confidence < 60 /\ satellite_score < 40 /\ report_density < 30

\* elif ml_confidence > 0.85 and satellite_score > 0.7
IsCorroborated(ml_confidence, satellite_score) == ml_confidence > 85 /\ satellite_score > 70

\* risk = min(0.99, risk + 0.05)
Boost(risk) == Min2(9900, risk + 500)

\* the recommended action of a final risk
RecommendedAction(risk) ==
    IF risk >= 8000 THEN "Immediate Verification & Containment Alert"
    ELSE IF risk >= 6000 THEN "Priority Review & Satellite Monitoring"
    ELSE IF risk >= 4000 THEN "Routine Review"
    ELSE "Log & Passive Monitor"

CalculateRisk(ml_confidence, is_invasive, species, report_density, satellite_score, reputation, photo_quality, seasonality) ==
    LET components == Components(ml_confidence, report_density, satellite_score, reputation,
                                 photo_quality, seasonality)
        base == WeightedBase(components)
        \* rules 1 to 3: the risk and the reasons after the if / elif chain
        ruled ==
            IF IsNonInvasive(is_invasive, species)
            THEN IF base > 3000
                 THEN [risk |-> 3000, reasons |-> <<"capped: non-invasive or unknown">>]
                 ELSE [risk |-> base, reasons |-> <<>>]
            ELSE IF IsUncorroborated(ml_confidence, satellite_score, report_density)
            THEN IF base > 5500
                 THEN [risk |-> 5500, reasons |-> <<"capped: low confidence">>]
                 ELSE [risk |-> base, reasons |-> <<>>]
            ELSE IF IsCorroborated(ml_confidence, satellite_score)
            THEN [risk |-> Boost(base), reasons |-> <<"boosted">>]
            ELSE [risk |-> base, reasons |-> <<>>]
        \* rule 4
        reasons == IF report_density > 80
                   THEN Append(ruled.reasons, "high report density")
                   ELSE ruled.reasons
        risk == Max2(0, Min2(FullRisk, ruled.risk))
    IN [risk_score |-> risk, components |-> components, reasons |-> reasons,
        recommended_action |-> RecommendedAction(risk)]

----------------------------------------------------------------------------
(* calculate_risk on its own: one call with drawn arguments *)

MlValues == {0, 59, 60, 85, 86, 90, 100}
DensityValues == {0, 29, 30, 80, 81, 100}
SatelliteValues == {0, 20, 39, 40, 70, 71, 80, 90, 100}
MinorValues == {0, 50, 100}
SpeciesNames == {"kudzu", "Unknown", "native", "unknown organism"}

FusionArgs ==
    [ml_confidence : MlValues, is_invasive : BOOLEAN, species : SpeciesNames,
     report_density : DensityValues, satellite_score : SatelliteValues,
     reputation : MinorValues, photo_quality : MinorValues, seasonality : MinorValues]

NoFusion ==
    [risk_score |-> 0, components |-> Components(0, 0, 0, 0, 0, 0), reasons |-> <<>>,
     recommended_action |-> ""]

InitFusion ==
    /\ reports = <<>>
    /\ outbreaks = <<>>
    /\ tasks = <<>>
    /\ lock = NoProc
    /\ tx = NoStore
    /\ loc = [p \in Procs |-> NoLoc]
    /\ hashOrder = <<"kudzu", "knotweed">>
    /\ last \in {[op |-> "call", args |-> a, result |-> NoFusion] : a \in FusionArgs}

\* the call returns
Fuse ==
    /\ last.op = "call"
    /\ last' = [last EXCEPT
                  !.op = "return",
                  !.result = CalculateRisk(last.args.ml_confidence, last.args.is_invasive,
                                           last.args.species, last.args.report_density,
                                           last.args.satellite_score, last.args.reputation,
                                           last.args.photo_quality, last.args.seasonality)]
    /\ UNCHANGED <<reports, outbreaks, tasks, lock, tx, loc, hashOrder>>

NextFusion == Fuse

SpecFusion == InitFusion /\ [][NextFusion]_vars

(* C17: with every signal in [0,1], calculate_risk returns a risk in [0,1];
   and when is_invasive is false, or the species is unknown or native, the
   returned risk is at most 0.30 whatever the other inputs are. *)
C17_RiskRange ==
    last.op = "return" =>
        /\ last.result.risk_score >= 0
        /\ last.result.risk_score <= FullRisk
        /\ (\/ ~last.args.is_invasive
            \/ last.args.species \in {"Unknown", "native"})
           => last.result.risk_score <= 3000

\* a call whose weighted sum is 1.0 and that rule 1 caps
C17_Witness ==
    /\ last.op = "return"
    /\ ~last.args.is_invasive
    /\ last.result.components.ml + last.result.components.density
       + last.result.components.satellite + last.result.components.reputation
       + last.result.components.quality + last.result.components.seasonality = FullRisk
    /\ last.result.risk_score = 3000

\* ml 0.9, density 0.0, satellite 0.9, invasive kudzu, the minor signals at 0.5
ExampleArgs ==
    [ml_confidence |-> 90, is_invasive |-> TRUE, species |-> "kudzu", report_density |-> 0,
     satellite_score |-> 90, reputation |-> 50, photo_quality |-> 50, seasonality |-> 50]

ExampleBase ==
    last.result.components.ml + last.result.components.density
    + last.result.components.satellite + last.result.components.reputation
    + last.result.components.quality + last.result.components.seasonality

(* C18, as amended: for the example call (ml 0.9, density 0.0, satellite 0.9,
   invasive kudzu, reputation, photo quality and seasonality 0.5) the base
   score is 0.635, rule 3 boosts it, and the final risk is 0.685 with the
   "boosted" reason as the only reason. *)
C18_ExampleIsBoostedTo0685 ==
    (last.op = "return" /\ last.args = ExampleArgs) =>
        /\ ExampleBase = 6350
        /\ last.result.risk_score = 6850
        /\ last.result.reasons = <<"boosted">>

C18_Witness ==
    /\ last.op = "return"
    /\ last.args = ExampleArgs
    /\ last.result.risk_score = ExampleBase + 500

(* C18, as stated: the example call has base score about 0.585 and final risk
   about 0.635 (to the nearest 0.005) with a "boosted" reason present. *)
C18_ExampleAsStated ==
    (last.op = "return" /\ last.args = ExampleArgs) =>
        /\ Abs(ExampleBase - 5850) <= 50
        /\ Abs(last.result.risk_score - 6350) <= 50
        /\ \E i \in 1..Len(last.result.reasons) : last.result.reasons[i] = "boosted"

----------------------------------------------------------------------------
(* Report intake: POST /report, the observation import, the batch density
   job and the review endpoints.  A stored score is kept in hundredths,
   truncated, which preserves every comparison against a threshold in whole
   hundredths; a NULL column is Null. *)

MaxIntake == 3

Null == -1

DensityRadiusKm == 2

\* 1.0 - math.exp(-count / 3.0), to the nearest hundredth, for count = 0 .. 16;
\* every later count gives 100
DensityTable == <<0, 28, 49, 63, 74, 81, 86, 90, 93, 95, 96, 97, 98, 99, 99, 99, 100>>

\* score = max(0.0, min(1.0, 1.0 - math.exp(-count / 3.0))), in hundredths
DensityScore(count) ==
    Max2(0, Min2(FullSignal, DensityTable[Min2(count, Len(DensityTable) - 1) + 1]))

\* the same expression as the double it is: what the result lacks to 1.0, in
\* units of 2^-54, as <<billions, rest>>, for count = 0 .. 113; from count 113
\* on math.exp(-count / 3.0) is below half an ulp of 1.0 and the result is 1.0
DensityGaps ==
    <<
      <<18014398, 509481984>>, <<12907880, 573197642>>, <<9248900, 583843260>>, <<6627126, 856707896>>,
      <<4748543, 891975664>>, <<3402480, 378234484>>, <<2437983, 724617958>>, <<1746891, 673358074>>,
      <<1251702, 580141700>>, <<896884, 90197526>>, <<642645, 532582014>>, <<460475, 645695382>>,
      <<329945, 217897424>>, <<236416, 79397596>>, <<169399, 523211476>>, <<121380, 62377294>>,
      <<86972, 615172730>>, <<62318, 601933746>>, <<44653, 229516714>>, <<31995, 437066964>>,
      <<22925, 732453972>>, <<16427, 5121108>>, <<11770, 463508230>>, <<8433, 905643614>>,
      <<6043, 157464074>>, <<4330, 111537736>>, <<3102, 660495066>>, <<2223, 153390794>>,
      <<1592, 959012712>>, <<1141, 405009070>>, <<817, 852427044>>, <<586, 16871406>>,
      <<419, 899436886>>, <<300, 871093822>>, <<215, 583559170>>, <<154, 472370190>>,
      <<110, 684289860>>, <<79, 308759274>>, <<56, 827209222>>, <<40, 718474700>>,
      <<29, 176062042>>, <<20, 905561972>>, <<14, 979489718>>, <<10, 733273400>>,
      <<7, 690726456>>, <<5, 510646306>>, <<3, 948550620>>, <<2, 829260150>>,
      <<2, 27253484>>, <<1, 452590596>>, <<1, 40826644>>, <<0, 745784878>>,
      <<0, 534378216>>, <<0, 382898724>>, <<0, 274358924>>, <<0, 196586760>>,
      <<0, 140860568>>, <<0, 100931008>>, <<0, 72320228>>, <<0, 51819708>>,
      <<0, 37130442>>, <<0, 26605124>>, <<0, 19063404>>, <<0, 13659526>>,
      <<0, 9787478>>, <<0, 7013034>>, <<0, 5025058>>, <<0, 3600612>>,
      <<0, 2579952>>, <<0, 1848616>>, <<0, 1324592>>, <<0, 949112>>,
      <<0, 680068>>, <<0, 487290>>, <<0, 349158>>, <<0, 250182>>,
      <<0, 179264>>, <<0, 128448>>, <<0, 92038>>, <<0, 65948>>,
      <<0, 47254>>, <<0, 33858>>, <<0, 24260>>, <<0, 17384>>,
      <<0, 12456>>, <<0, 8926>>, <<0, 6396>>, <<0, 4582>>,
      <<0, 3284>>, <<0, 2352>>, <<0, 1686>>, <<0, 1208>>,
      <<0, 866>>, <<0, 620>>, <<0, 444>>, <<0, 318>>,
      <<0, 228>>, <<0, 164>>, <<0, 118>>, <<0, 84>>,
      <<0, 60>>, <<0, 44>>, <<0, 30>>, <<0, 22>>,
      <<0, 16>>, <<0, 12>>, <<0, 8>>, <<0, 6>>,
      <<0, 4>>, <<0, 2>>, <<0, 2>>, <<0, 2>>,
      <<0, 2>>, <<0, 0>>
    >>

\* 1.0 minus the score of a count, as the pair of DensityGaps
DensityGap(count) == DensityGaps[Min2(count, Len(DensityGaps) - 1) + 1]

\* a < b for two scores given by what they lack to 1.0
ScoreLess(a, b) == a[1] > b[1] \/ (a[1] = b[1] /\ a[2] > b[2])

\* utcnow_report_values: one row of the reports table
Report(pos, species, is_invasive, ml_confidence, report_density, satellite_score, fused_risk, ndvi_anomaly, status) ==
    [pos |-> pos, species |-> species, risk |-> fused_risk, anomaly |-> ndvi_anomaly,
     inv |-> is_invasive, recent |-> TRUE, status |-> status, ml |-> ml_confidence,
     density |-> report_density, satellite |-> satellite_score, lon |-> 0, age |-> 0]

\* a stored score of a risk in ten-thousandths
Stored(risk) == risk \div 100

\* Places are near the equator: pos is the latitude and lon the longitude, both
\* as kilometres of arc, and the longitudes -HalfTurnKm and HalfTurnKm are
\* the same meridian (180 degrees).  age is the age of a row in days.
WindowDays == 14
HalfTurnKm == 20015

\* the length of the shorter arc between two longitudes
WrapKm(d) ==
    LET m == Abs(d) % (2 * HalfTurnKm)
    IN IF m > HalfTurnKm THEN 2 * HalfTurnKm - m ELSE m

\* _haversine_km(lat1, lon1, lat2, lon2) <= radius_km, for places a few
\* kilometres apart: the haversine takes the shorter arc of longitude
HaversineWithin(lat1, lon1, lat2, lon2, radius_km) ==
    (lat2 - lat1) * (lat2 - lat1) + WrapKm(lon2 - lon1) * WrapKm(lon2 - lon1)
        <= radius_km * radius_km

\* lat BETWEEN ? AND ? AND lon BETWEEN ? AND ?, with the bounds of
\* _bounding_box: radius_km / 111.0 degrees either way, a degree being 111.2 km
InBoundingBox(lat, lon, rlat, rlon, radius_km) ==
    /\ Abs(rlat - lat) * 1110 <= radius_km * 1112
    /\ Abs(rlon - lon) * 1110 <= radius_km * 1112

\* a row that the SELECT returns and the loop counts
Counted(r, lat, lon) ==
    /\ r.age <= WindowDays
    /\ r.inv
    /\ InBoundingBox(lat, lon, r.pos, r.lon, DensityRadiusKm)
    /\ HaversineWithin(lat, lon, r.pos, r.lon, DensityRadiusKm)

\* compute_report_density of db.py on a store that answers
ComputeReportDensity(rows, lat, lon) ==
    LET count == Cardinality({i \in 1..Len(rows) : Counted(rows[i], lat, lon)})
    IN [count |-> count, score |-> DensityScore(count), gap |-> DensityGap(count)]

\* what get_satellite_change may answer: not ok, ok without anomaly, ok with
SatelliteAnswers ==
    {[ok |-> FALSE, ndvi_anomaly |-> FALSE], [ok |-> TRUE, ndvi_anomaly |-> FALSE],
     [ok |-> TRUE, ndvi_anomaly |-> TRUE]}

SatScore(sat) ==
    IF sat.ok THEN Min2(FullSignal, IF sat.ndvi_anomaly THEN 80 ELSE 20) ELSE 20

\* status = "unverified"; pending_review for 0.4 < ml < 0.7 or risk > 0.7
InitialStatus(ml_confidence, risk_score) ==
    IF risk_score > 7000 THEN "pending_review"
    ELSE IF 40 < ml_confidence /\ ml_confidence < 70 THEN "pending_review"
    ELSE "unverified"

IntakePositions == {0}
IntakeMl == {50, 90}
IntakePhoto == {FALSE}

\* POST /report
CreateReport ==
    /\ AllIdle
    /\ Len(reports) < MaxIntake
    /\ \E pos \in IntakePositions, ml_confidence \in IntakeMl, is_invasive \in BOOLEAN,
          sat \in SatelliteAnswers, photo \in IntakePhoto :
          LET sat_score == SatScore(sat)
              density == ComputeReportDensity(reports, pos, 0)
              risk_res == CalculateRisk(ml_confidence, is_invasive, "kudzu", density.score,
                                        sat_score, 50, IF photo THEN 80 ELSE 50, 50)
              status == InitialStatus(ml_confidence, risk_res.risk_score)
          IN reports' = Append(reports,
                               Report(pos, "kudzu", is_invasive, ml_confidence, density.score,
                                      sat_score, Stored(risk_res.risk_score),
                                      sat.ok /\ sat.ndvi_anomaly, status))
    /\ last' = NoLast
    /\ UNCHANGED <<outbreaks, tasks, lock, tx, loc, hashOrder>>

\* the row an imported observation becomes
ImportedReport(pos, research_only) ==
    Report(pos, "kudzu", TRUE, IF research_only THEN 95 ELSE 85, Null, Null, 85, FALSE,
           IF research_only THEN "verified" ELSE "unverified")

\* ingest_stream / ingest_dataset: one observation is inserted and committed
IngestObservation ==
    /\ AllIdle
    /\ Len(reports) < MaxIntake
    /\ \E pos \in IntakePositions, research_only \in BOOLEAN :
          reports' = Append(reports, ImportedReport(pos, research_only))
    /\ last' = NoLast
    /\ UNCHANGED <<outbreaks, tasks, lock, tx, loc, hashOrder>>

\* a batch job that also resets the status of the rows it scores
BatchRowResetsStatus(rows, i) ==
    LET neighbors == Cardinality({j \in 1..Len(rows) :
                                     /\ j # i
                                     /\ rows[j].species = rows[i].species
                                     /\ HaversineKm(rows[i].pos, rows[j].pos) <= DensityRadiusKm})
    IN [rows[i] EXCEPT !.density = DensityScore(neighbors), !.status = "unverified"]

\* one row of compute_batch_density_and_risk: neighbours, density, fused risk
BatchRow(rows, i) ==
    LET neighbors == Cardinality({j \in 1..Len(rows) :
                                     /\ j # i
                                     /\ rows[j].species = rows[i].species
                                     /\ HaversineKm(rows[i].pos, rows[j].pos) <= DensityRadiusKm})
        density_score == DensityScore(neighbors)
        ml_conf == IF rows[i].ml = Null \/ rows[i].ml = 0 THEN 85 ELSE rows[i].ml
        sat_score == 20
        fused_risk == Max2(0, Min2(FullRisk, ml_conf * 55 + density_score * 35 + sat_score * 10))
    IN [rows[i] EXCEPT !.density = density_score, !.risk = Stored(fused_risk)]

\* compute_batch_density_and_risk(species), committed
ComputeBatch ==
    /\ AllIdle
    /\ \E species \in {"kudzu"} :
          reports' = [i \in 1..Len(reports) |->
                         IF reports[i].species = species THEN BatchRow(reports, i)
                         ELSE reports[i]]
    /\ last' = [NoLast EXCEPT !.op = "compute_batch"]
    /\ UNCHANGED <<outbreaks, tasks, lock, tx, loc, hashOrder>>

ReviewDecisions == {"verified", "rejected", "needs_more_info"}

\* POST /review/{report_id}: record_validation is called with a keyword it
\* does not have, so the handler raises before update_report_status
ReviewReport ==
    /\ AllIdle
    /\ \E decision \in ReviewDecisions :
          last' = [NoLast EXCEPT !.op = "review", !.failed = TRUE]
    /\ UNCHANGED <<reports, outbreaks, tasks, lock, tx, loc, hashOrder>>

\* POST /report/{id}/request_more_info
RequestMoreInfo ==
    /\ AllIdle
    /\ \E id \in 1..Len(reports) :
          reports' = [reports EXCEPT ![id].status = "needs_more_info"]
    /\ last' = NoLast
    /\ UNCHANGED <<outbreaks, tasks, lock, tx, loc, hashOrder>>

NextIntake ==
    \/ CreateReport
    \/ IngestObservation
    \/ ComputeBatch
    \/ ReviewReport
    \/ RequestMoreInfo
    \/ Recompute
    \/ Reconcile

InitIntake == TypeInit /\ reports = <<>> /\ hashOrder = <<"kudzu", "knotweed">>

SpecIntake == InitIntake /\ [][NextIntake]_vars

(* C13: recompute jobs never change a report's lifecycle status.  A step of
   compute_batch_density_and_risk changes nothing of a report but its density
   and its fused risk; a step of recompute_outbreaks or of
   auto_create_tasks_from_outbreaks leaves the reports table as it was; and a
   step that changes the status of a report is a request_more_info (the review
   path), which changes nothing else.  No report is ever deleted. *)
C13_ReportStatusFrame ==
    [][/\ Len(reports') >= Len(reports)
       /\ \A i \in 1..Len(reports) :
             reports'[i].status # reports[i].status
             => /\ reports' = [reports EXCEPT ![i].status = "needs_more_info"]
                /\ last' = NoLast
                /\ outbreaks' = outbreaks
                /\ tasks' = tasks
       /\ last'.op = "compute_batch"
          => /\ Len(reports') = Len(reports)
             /\ \A i \in 1..Len(reports) :
                   reports'[i] = [reports[i] EXCEPT !.density = reports'[i].density,
                                                    !.risk = reports'[i].risk]
       /\ last'.op \in {"recompute", "reconcile"} => reports' = reports]_vars

\* a pass has created an outbreak from imported reports that the batch job
\* scored before, and one of them is still verified
C13_Witness ==
    /\ last.op = "recompute"
    /\ ~last.failed
    /\ last.created = 1
    /\ \E i \in 1..Len(reports) :
          /\ reports[i].status = "verified"
          /\ reports[i].density # Null
          /\ reports[i].satellite = Null

(* C15: every report is created with lifecycle status 'unverified', on
   every ingestion path: a step that adds a row to the reports table adds it
   with status 'unverified'. *)
C15_CreatedUnverified ==
    [][Len(reports') > Len(reports)
       => \A i \in (Len(reports) + 1)..Len(reports') : reports'[i].status = "unverified"]_vars

(* C16: in every reachable state, every stored report with a non-null
   fused risk also has a non-null density score and a non-null satellite
   score. *)
C16_FusedRiskHasSignals ==
    \A i \in 1..Len(reports) :
        reports[i].risk # Null => (reports[i].density # Null /\ reports[i].satellite # Null)

\* worker q runs a recompute pass that has written and not yet committed
WritingRecompute(q) == lock = q /\ loc[q].op = "recompute"

(* C14: reconcile runs after, never concurrently with, the recompute pass
   it depends on.  The step in which a reconcile call reads the outbreak rows
   (its SELECT of candidates) is never taken while a recompute pass is between
   its first write and its commit, and the candidates it reads are the
   committed rows, so that no task is created from values a pass has written
   but not committed. *)
C14_ReconcileAfterRecompute ==
    [][\A p \in Procs :
          (loc[p].pc = "idle" /\ loc'[p].pc # "idle" /\ loc'[p].op = "reconcile")
          => /\ ~\E q \in Procs : WritingRecompute(q)
             /\ loc'[p].candidates = TkStart(Store).candidates]_vars

----------------------------------------------------------------------------
(* Dispatch over every initial report set *)

\* recompute and reconcile passes served one at a time, as reports arrive and
\* operators act
NextReconcile ==
    \/ Recompute
    \/ Reconcile
    \/ AddReport
    \/ OperatorSetStatus

SpecReconcile == Init /\ [][NextReconcile]_vars

(* C19: a task created by reconcile has status 'open', references an
   outbreak, and has priority 'critical' exactly when that outbreak's mean
   risk is >= 0.90 and 'high' otherwise; reconcile never creates a task for an
   outbreak with mean risk < 0.75 or with status 'watch' or 'resolved'; and it
   changes no task that was there before. *)
C19_AutoTaskShape ==
    [][ReconcileDone =>
        /\ Len(tasks') >= Len(tasks)
        /\ SubSeq(tasks', 1, Len(tasks)) = tasks
        /\ \A k \in (Len(tasks) + 1)..Len(tasks') :
              /\ tasks'[k].status = "open"
              /\ tasks'[k].outbreak_id \in 1..Len(outbreaks)
              /\ LET o == outbreaks[tasks'[k].outbreak_id]
                 IN /\ o.status \notin {"watch", "resolved"}
                    /\ o.mean_risk >= 75 * Scale
                    /\ tasks'[k].priority = "critical" <=> o.mean_risk >= 90 * Scale
                    /\ tasks'[k].priority = "high" <=> o.mean_risk < 90 * Scale]_vars

\* a pass has created a critical task for an outbreak whose mean risk is
\* exactly 0.90, and has passed over a watched outbreak with the same risk
C19_Witness ==
    /\ last.op = "reconcile" /\ ~last.failed /\ last.created = 1
    /\ \E k \in 1..Len(tasks) :
          /\ tasks[k].priority = "critical"
          /\ outbreaks[tasks[k].outbreak_id].mean_risk = 90 * Scale
    /\ \E id \in 1..Len(outbreaks) :
          /\ outbreaks[id].status = "watch"
          /\ outbreaks[id].mean_risk >= 90 * Scale
          /\ \A k \in 1..Len(tasks) : tasks[k].outbreak_id # id

----------------------------------------------------------------------------
(* The task endpoints with the strings a request may carry *)

\* priority: str of CreateTaskRequest: a documented value and another string
RequestPriorities == {"normal", "urgent"}

\* status: Optional[str] of UpdateTaskRequest; "" stands for None
RequestStatuses == {"", "in_progress", "resolved", "done"}

\* POST /tasks
CreateNewTask ==
    /\ AllIdle
    /\ InsertTask(RequestPriorities)

\* POST /tasks/{id}/update
UpdateExistingTask ==
    /\ AllIdle
    /\ SetTask(RequestStatuses, UpdateNotes)

NextTasks ==
    \/ Recompute
    \/ Reconcile
    \/ CreateNewTask
    \/ UpdateExistingTask

SpecTasks == InitDispatch /\ [][NextTasks]_vars

(* C20: in every reachable state every task has priority in {critical,
   high, normal} and status in {open, in_progress, resolved}, whatever
   sequence of reconcile, create_task and update_task calls produced it. *)
C20_TaskEnums ==
    \A i \in 1..Len(tasks) :
        /\ tasks[i].priority \in {"critical", "high", "normal"}
        /\ tasks[i].status \in {"open", "in_progress", "resolved"}

----------------------------------------------------------------------------
(* The density scorers on their own: compute_report_density of db.py, which
   POST /report calls, and compute_report_density of density.py.  One call
   with a drawn store and a drawn point. *)

MaxCrowd == 113

\* a stored report at a place, with its flag and its age in days
PlacedReport(lat, lon, is_invasive, age) ==
    [Report(lat, "kudzu", is_invasive, 90, 0, 20, 50, FALSE, "unverified")
        EXCEPT !.lon = lon, !.age = age, !.recent = (age <= 60)]

\* reports around the origin: inside and outside the radius, one not invasive,
\* one older than the window
NearbyReports ==
    <<PlacedReport(0, 0, TRUE, 0), PlacedReport(1, 1, TRUE, 3), PlacedReport(2, 0, TRUE, 14),
      PlacedReport(0, 2, TRUE, 0), PlacedReport(2, 1, TRUE, 0), PlacedReport(3, 0, TRUE, 0),
      PlacedReport(0, 0, FALSE, 0), PlacedReport(0, 0, TRUE, 15)>>

\* two reports one kilometre either side of the 180th meridian
DatelineReports ==
    <<PlacedReport(0, HalfTurnKm - 1, TRUE, 0), PlacedReport(0, 1 - HalfTurnKm, TRUE, 0)>>

\* n reports at the origin
Crowd(n) == [i \in 1..n |-> PlacedReport(0, 0, TRUE, 0)]

DensityFixtures == {NearbyReports, DatelineReports} \cup {Crowd(n) : n \in 0..MaxCrowd}

DensityPoints == {<<0, 0>>, <<1, 0>>, <<0, HalfTurnKm>>}

\* the database file: there and readable, not there, or not to be opened
StoreStates == {"ok", "missing", "unreachable"}

NoDensity == [raised |-> FALSE, count |-> 0, score |-> 0, gap |-> DensityGap(0)]

\* the call raises sqlite3.OperationalError
DensityRaised == [NoDensity EXCEPT !.raised = TRUE]

\* compute_report_density of db.py: get_conn creates a missing file empty, and
\* the SELECT then raises "no such table"; a file that cannot be opened raises
DbDensityFn(store, rows, lat, lon) ==
    IF store = "ok"
    THEN LET d == ComputeReportDensity(rows, lat, lon)
         IN [raised |-> FALSE, count |-> d.count, score |-> d.score, gap |-> d.gap]
    ELSE DensityRaised

\* a row that the SELECT and the loop of density.py count
LegacyCounted(r, lat, lon) ==
    /\ r.age <= WindowDays
    /\ HaversineWithin(lat, lon, r.pos, r.lon, DensityRadiusKm)

\* compute_report_density of density.py: (0, 0.0) when the file is not there
LegacyDensityFn(store, rows, lat, lon) ==
    IF store = "missing" THEN NoDensity
    ELSE IF store = "unreachable" THEN DensityRaised
    ELSE LET count == Cardinality({i \in 1..Len(rows) : LegacyCounted(rows[i], lat, lon)})
         IN [raised |-> FALSE, count |-> count, score |-> DensityScore(count),
             gap |-> DensityGap(count)]

InitDensity ==
    /\ reports = <<>>
    /\ outbreaks = <<>>
    /\ tasks = <<>>
    /\ lock = NoProc
    /\ tx = NoStore
    /\ loc = [p \in Procs |-> NoLoc]
    /\ hashOrder = <<"kudzu", "knotweed">>
    /\ last \in {[op |-> "call", by |-> "", store |-> s, rows |-> rows, lat |-> pt[1],
                  lon |-> pt[2], result |-> NoDensity] :
                    s \in StoreStates, rows \in DensityFixtures, pt \in DensityPoints}

\* db.compute_report_density returns or raises
DbDensity ==
    /\ last.op = "call"
    /\ last' = [last EXCEPT !.op = "return", !.by = "db",
                            !.result = DbDensityFn(last.store, last.rows, last.lat, last.lon)]
    /\ UNCHANGED <<reports, outbreaks, tasks, lock, tx, loc, hashOrder>>

\* density.compute_report_density returns or raises
LegacyDensity ==
    /\ last.op = "call"
    /\ last' = [last EXCEPT !.op = "return", !.by = "density",
                            !.result = LegacyDensityFn(last.store, last.rows, last.lat,
                                                       last.lon)]
    /\ UNCHANGED <<reports, outbreaks, tasks, lock, tx, loc, hashOrder>>

NextDensity ==
    \/ DbDensity
    \/ LegacyDensity

SpecDensity == InitDensity /\ [][NextDensity]_vars

(* C21: when the report store is missing or unreachable, a call of the
   density scorer fails with an error; it never returns count 0 and score
   0.0 as if there were no nearby reports. *)
C21_StoreFailureRaises ==
    (last.op = "return" /\ last.store # "ok") => last.result.raised

\* the reports of a store that the scorer has to count for a point
NearbyInvasive(rows, lat, lon) ==
    {i \in 1..Len(rows) :
        /\ rows[i].inv
        /\ rows[i].age <= 14
        /\ (rows[i].pos - lat) * (rows[i].pos - lat)
           + WrapKm(rows[i].lon - lon) * WrapKm(rows[i].lon - lon) <= 2 * 2}

(* C22: the count the density scorer returns for a point is the number of
   stored reports that are flagged invasive, were created within the last 14
   days and lie within 2 km of the point. *)
C22_CountIsNearbyInvasive ==
    (last.op = "return" /\ last.store = "ok")
    => /\ ~last.result.raised
       /\ last.result.count = Cardinality(NearbyInvasive(last.rows, last.lat, last.lon))

(* C23: for every count c >= 0 the density score lies in [0,1), is
   strictly increasing in c (the score of c is below the score of c + 1), and
   is 0.0 exactly for c = 0. *)
C23_ScoreBelowOneAndIncreasing ==
    (last.op = "return" /\ last.store = "ok")
    => /\ ~ScoreLess(last.result.gap, DensityGap(0))
       /\ last.result.gap # <<0, 0>>
       /\ ScoreLess(last.result.gap, DensityGap(last.result.count + 1))
       /\ last.result.count = 0 => last.result.gap = DensityGap(0)

----------------------------------------------------------------------------
(* The dominant species of a cluster *)

\* the species with the most members whose first member comes first in the
\* ordered member list
FirstPlurality(members) ==
    LET Most(i) == \A j \in 1..Len(members) :
                      CountOf(members[i].species, members) >= CountOf(members[j].species, members)
        first == CHOOSE i \in 1..Len(members) :
                    Most(i) /\ \A j \in 1..Len(members) : Most(j) => i <= j
    IN members[first].species

(* C24: the dominant species of a cluster is the species with the most
   members, ties going to the species whose first member comes first in
   cluster scan order: every outbreak row that a completed pass has written
   carries, for some cluster of the pass, that cluster's size and that
   species. *)
C24_DominantSpecies ==
    [][RecomputeDone =>
        LET cr == ClusterReports(Qualifying(reports))
        IN \A id \in 1..Len(outbreaks') :
              (id > Len(outbreaks) \/ outbreaks'[id] # outbreaks[id])
              => \E k \in 1..Len(cr) :
                    /\ outbreaks'[id].num_reports = Len(cr[k])
                    /\ outbreaks'[id].species = FirstPlurality(cr[k])]_vars

----------------------------------------------------------------------------
(* What a pass leaves alone *)

(* C25: a recompute pass leaves unchanged every outbreak record that no
   cluster of the pass matches: a record that a completed pass has changed was
   active, keeps its species and its status, and carries the centroid,
   radius, count, mean risk and anomaly rate of a cluster of the pass with
   that species (so never zeros); and a pass over zero qualifying reports, or
   over reports that are all noise, returns created = 0 and updated = 0 and
   leaves the outbreak store as it was. *)
C25_UnmatchedUnchanged ==
    [][RecomputeDone =>
        LET cr == ClusterReports(Qualifying(reports))
        IN /\ Len(outbreaks') >= Len(outbreaks)
           /\ \A id \in 1..Len(outbreaks) :
                 outbreaks'[id] # outbreaks[id]
                 => /\ outbreaks[id].status \in {"watch", "investigating", "confirmed"}
                    /\ outbreaks'[id].status = outbreaks[id].status
                    /\ outbreaks'[id].species = outbreaks[id].species
                    /\ \E k \in 1..Len(cr) :
                          /\ \E i \in 1..Len(cr[k]) : cr[k][i].species = outbreaks[id].species
                          /\ outbreaks'[id].num_reports = Len(cr[k])
                          /\ outbreaks'[id].num_reports >= 3
                          /\ outbreaks'[id].centroid = Centroid(cr[k])
                          /\ outbreaks'[id].radius_km = RadiusKm(cr[k])
                          /\ outbreaks'[id].mean_risk = Mean(Map(cr[k], RiskOf))
                          /\ outbreaks'[id].anomaly_rate = Mean(Map(cr[k], AnomalyOf))
           /\ cr = <<>>
              => /\ last'.created = 0
                 /\ last'.updated = 0
                 /\ outbreaks' = outbreaks]_vars

\* a pass has updated the second outbreak with a cluster of five reports and
\* left the first, resolved, with the three it had
C25_Witness ==
    /\ last.op = "recompute" /\ ~last.failed /\ last.created = 0 /\ last.updated = 1
    /\ Len(outbreaks) = 2
    /\ outbreaks[1].status = "resolved"
    /\ outbreaks[1].num_reports = 3
    /\ outbreaks[2].num_reports = 5

----------------------------------------------------------------------------
(* Passes as the window moves *)

\* sixty days go by: every stored report falls out of the window of the SELECT
WindowPasses ==
    /\ AllIdle
    /\ reports # <<>>
    /\ \A i \in 1..Len(reports) : reports[i].recent
    /\ reports' = [i \in 1..Len(reports) |-> [reports[i] EXCEPT !.recent = FALSE]]
    /\ last' = NoLast
    /\ UNCHANGED <<outbreaks, tasks, lock, tx, loc, hashOrder>>

NextSeasons ==
    \/ Recompute
    \/ AddReport
    \/ OperatorSetStatus
    \/ WindowPasses

SpecSeasons == Init /\ [][NextSeasons]_vars

(* C26: within one recompute pass two distinct clusters never write the same
   outbreak record: after a completed pass every cluster of the pass is
   carried by an outbreak row of its own, and created + updated equals the
   number of outbreak rows that carry a cluster of the pass. *)
C26_OwnRowPerCluster ==
    [][RecomputeDone =>
        LET cs == RcStart(Qualifying(reports), hashOrder).clusters
            written == {id \in 1..Len(outbreaks') :
                           \E k \in 1..Len(cs) : Carries(outbreaks'[id], cs[k])}
        IN /\ \A k \in 1..Len(cs) :
                 \E id \in 1..Len(outbreaks') : Carries(outbreaks'[id], cs[k])
           /\ last'.created + last'.updated = Cardinality(written)]_vars

----------------------------------------------------------------------------
(* Outbreak aggregates at the risk floor *)

\* three reports at the floor of the SELECT, 1 km apart, and one just under it
FloorReports ==
    <<Rep(0, "kudzu", 70, FALSE), Rep(1, "kudzu", 70, TRUE), Rep(1, "kudzu", 69, FALSE),
      Rep(2, "kudzu", 70, FALSE)>>

InitFloor == TypeInit /\ reports = FloorReports /\ hashOrder = <<"kudzu", "knotweed">>

SpecFloor == InitFloor /\ [][NextSeasons]_vars

\* two to the power k
RECURSIVE Pow2(_)
Pow2(k) == IF k = 0 THEN 1 ELSE 2 * Pow2(k - 1)

(* C27 (as stated): in every reachable state every outbreak record has mean
   risk in [0.70, 1], anomaly rate in [0, 1] and radius >= 0. *)
C27_AggregateRanges ==
    \A id \in 1..Len(outbreaks) :
        LET o == outbreaks[id]
        IN /\ AtLeast(o.mean_risk, o.mean_risk_err, RiskFloor)
           /\ o.mean_risk < 100 * Scale \/ (o.mean_risk = 100 * Scale /\ o.mean_risk_err <= 0)
           /\ 0 <= o.anomaly_rate /\ o.anomaly_rate <= Scale
           /\ o.radius_km >= 0

(* C27 (amended): in every reachable state every outbreak record has mean
   risk in [0, 1], anomaly rate in [0, 1] and radius >= 0; the exact mean of
   its members' risks is at least 0.70, and the stored double lies within
   2^-52 of that mean, so it may fall below 0.70 by rounding. *)
C27_AggregateRangesRounded ==
    \A id \in 1..Len(outbreaks) :
        LET o == outbreaks[id]
        IN /\ RiskFloor * Scale <= o.mean_risk /\ o.mean_risk <= 100 * Scale
           /\ Abs(o.mean_risk_err) <= Pow2(53 - 52) * 25 * Scale
           /\ o.mean_risk = 100 * Scale => o.mean_risk_err <= 0
           /\ 0 <= o.anomaly_rate /\ o.anomaly_rate <= Scale
           /\ o.radius_km >= 0

\* a pass has written an outbreak of three reports that are all at the floor
C27_Witness ==
    /\ last.op = "recompute" /\ ~last.failed /\ last.created = 1
    /\ \E id \in 1..Len(outbreaks) :
          /\ outbreaks[id].num_reports = 3
          /\ outbreaks[id].mean_risk = RiskFloor * Scale
          /\ outbreaks[id].mean_risk_err < 0

----------------------------------------------------------------------------
(* Dispatch after a task is resolved *)

(* C28: a resolved task does not block dispatch: when a reconcile pass runs
   and every task of a qualifying outbreak (investigating or confirmed, mean
   risk >= 0.75) is resolved, the pass creates exactly one new task for that
   outbreak, with status 'open', and leaves the resolved tasks as they were. *)
C28_ResolvedTaskDoesNotBlock ==
    [][ReconcileDone =>
        \A id \in 1..Len(outbreaks) :
            (IsCandidate(outbreaks[id]) /\ LiveTasks(id) = {})
            => /\ Cardinality({i \in (Len(tasks) + 1)..Len(tasks') :
                                  tasks'[i].outbreak_id = id /\ tasks'[i].status = "open"}) = 1
               /\ Cardinality({i \in (Len(tasks) + 1)..Len(tasks') : tasks'[i].outbreak_id = id}) = 1
               /\ \A i \in 1..Len(tasks) : tasks'[i] = tasks[i]]_vars

\* a pass has created an open task for an outbreak whose earlier task is resolved
C28_Witness ==
    /\ last.op = "reconcile" /\ ~last.failed /\ last.created = 1
    /\ \E id \in 1..Len(outbreaks), i, j \in 1..Len(tasks) :
          /\ IsCandidate(outbreaks[id])
          /\ i < j
          /\ tasks[i].outbreak_id = id /\ tasks[i].status = "resolved"
          /\ tasks[j].outbreak_id = id /\ tasks[j].status = "open" /\ tasks[j].notes.kind = "auto"
          /\ LiveTasks(id) = {j}

----------------------------------------------------------------------------
(* Recompute after an operator has resolved an outbreak *)

(* C29: after an operator has set an outbreak to 'resolved', a recompute pass
   over reports that still contain the outbreak's cluster leaves the resolved
   record as it is; if no active outbreak carries the cluster yet, the pass
   inserts exactly one new 'investigating' outbreak with the cluster's
   aggregates, and if one does, the pass updates it and inserts none for the
   cluster. *)
C29_ResolvedIsReplacedOnce ==
    [][RecomputeDone =>
        LET cs == RcStart(Qualifying(reports), hashOrder).clusters
            n == Len(outbreaks)
        IN \A k \in 1..Len(cs), i \in 1..n :
              (outbreaks[i].status = "resolved" /\ Carries(outbreaks[i], cs[k]))
              => LET replaced == {j \in 1..n : IsActive(outbreaks[j]) /\ Carries(outbreaks[j], cs[k])}
                     inserted == {j \in (n + 1)..Len(outbreaks') : Carries(outbreaks'[j], cs[k])}
                 IN /\ outbreaks'[i] = outbreaks[i]
                    /\ \A j \in inserted : outbreaks'[j].status = "investigating"
                    /\ IF replaced = {}
                       THEN Cardinality(inserted) = 1
                       ELSE /\ inserted = {}
                            /\ \E j \in replaced : Carries(outbreaks'[j], cs[k])]_vars

----------------------------------------------------------------------------
(* The calibration rules of calculate_risk *)

\* the reasons of a returned call contain s
HasReason(s) == \E i \in 1..Len(last.result.reasons) : last.result.reasons[i] = s

(* C30: in one call of calculate_risk at most one of the rules 1 (cap 0.30),
   2 (cap 0.55) and 3 (boost by 0.05 up to 0.99) applies; the boost is never
   applied when is_invasive is false or the species is unknown or native; and
   whenever the returned risk differs from the weighted base score clamped to
   [0,1], the reasons contain the reason of the rule that changed it: the
   risk is then 0.30 with the reason of rule 1, 0.55 with the reason of rule
   2, or the boosted base with the reason of rule 3. *)
C30_RulesExclusive ==
    last.op = "return" =>
        LET a == last.args
            res == last.result
            base == res.components.ml + res.components.density + res.components.satellite
                    + res.components.reputation + res.components.quality
                    + res.components.seasonality
            clamped == Max2(0, Min2(FullRisk, base))
            capped1 == HasReason("capped: non-invasive or unknown")
            capped2 == HasReason("capped: low confidence")
            boosted == HasReason("boosted")
            unknown == a.species \in {"Unknown", "unknown", "Native", "native", "unknown organism"}
        IN /\ ~(capped1 /\ capped2) /\ ~(capped1 /\ boosted) /\ ~(capped2 /\ boosted)
           /\ (~a.is_invasive \/ unknown)
              => /\ ~boosted /\ ~capped2
                 /\ res.risk_score <= clamped
           /\ res.risk_score # clamped
              => \/ capped1 /\ res.risk_score = 3000 /\ base > 3000
                 \/ capped2 /\ res.risk_score = 5500 /\ base > 5500
                 \/ boosted /\ res.risk_score = Min2(9900, base + 500)
           /\ (~capped1 /\ ~capped2 /\ ~boosted) => res.risk_score = clamped

\* a call that rule 3 has boosted, and one no cap has touched
C30_Witness ==
    /\ last.op = "return"
    /\ last.args.is_invasive /\ last.args.species = "kudzu"
    /\ HasReason("boosted") /\ HasReason("high report density")
    /\ last.result.risk_score = 9900
    /\ last.result.risk_score # last.result.components.ml + last.result.components.density
                                + last.result.components.satellite + last.result.components.reputation
                                + last.result.components.quality + last.result.components.seasonality

====
